---- MODULE Spec2Model ----
(***************************************************************************)
(* Model of dataset_maker: the annotation codecs of                        *)
(* dataset_maker/annotations.py (PascalVOC, YOLO) and the instance         *)
(* segmentation export of dataset_maker/annotations/                       *)
(* instance_segmentation.py (create_tfrecord, VGG.load).                   *)
(*                                                                         *)
(* Four specifications share the module:                                   *)
(*   SpecExport / FairExport  InstanceSegmentationAnnotation.create_tfrecord*)
(*   SpecVOC                  PascalVOC.download followed by PascalVOC.load *)
(*   SpecYOLO                 YOLO.download followed by YOLO.load           *)
(*   SpecVGG                  the annotation discovery of VGG.load          *)
(***************************************************************************)
EXTENDS Integers, Sequences, FiniteSets, TLC

VARIABLES
    \* ---- create_tfrecord ----
    pc,                 \* position in create_tfrecord
    filenames,          \* load(): names, one per record
    bboxes,             \* load(): per record, the (y0, x0, y1, x1) boxes
    masks,              \* load(): per record, the raw mask arrays
    classes,            \* load(): per record, the labels
    size,               \* per record, (width, height) of the image
    num_shards,         \* argument num_shards
    class_map_arg,      \* argument class_map (given = FALSE models None)
    class_map,          \* the class_map in use
    close_stack,        \* shards registered on the ExitStack
    output_tfrecords,   \* the shard writers: state and records written
    idx,                \* loop index of the record being processed
    raised,             \* the exception create_tfrecord left with, or "none"
    \* ---- PascalVOC.download / PascalVOC.load ----
    voc_pc,             \* "download", "load" or "loaded"
    image_names,        \* download(): image_names
    voc_bboxes,         \* download(): bboxes
    voc_classes,        \* download(): classes
    voc_i,              \* download(): records written so far
    voc_dir,            \* the files of download_path: file name -> document
    voc_loaded,         \* what load() returned
    \* ---- YOLO.download / YOLO.load ----
    yolo_pc,            \* "dict", "download", "list", "load", "loaded", "failed"
    yolo_names,         \* download(): image_names
    yolo_bboxes,        \* download(): bboxes
    yolo_classes,       \* download(): classes
    classes_dict,       \* download(): classes_dict
    yolo_i,             \* download(): records written so far
    yolo_dir,           \* the files of download_path: file name -> lines
    yolo_todo,          \* load(): annotation_files still to be read
    yolo_loaded,        \* load(): names, bboxes and classes so far
    \* ---- VGG.load ----
    vgg_pc,             \* "start", "assert", "open", "parsed", "failed"
    annotations_dir,    \* argument annotations_dir, a path
    vgg_kind,           \* what the path is on disk: "dir" or "file"
    vgg_entries,        \* the entries of the path when it is a directory
    potential_annotations,  \* load(): potential_annotations
    annotations_file,   \* load(): annotations_file
    vgg_opened,         \* the path whose content json.load parsed
    vgg_error           \* the exception load left with, or "none"

exportVars == <<pc, filenames, bboxes, masks, classes, size, num_shards,
                class_map_arg, class_map, close_stack, output_tfrecords,
                idx, raised>>

vocVars == <<voc_pc, image_names, voc_bboxes, voc_classes, voc_i, voc_dir,
             voc_loaded>>

yoloVars == <<yolo_pc, yolo_names, yolo_bboxes, yolo_classes, classes_dict,
              yolo_i, yolo_dir, yolo_todo, yolo_loaded>>

vggVars == <<vgg_pc, annotations_dir, vgg_kind, vgg_entries,
             potential_annotations, annotations_file, vgg_opened, vgg_error>>

vars == <<exportVars, vocVars, yoloVars, vggVars>>

nonExportVars == <<vocVars, yoloVars, vggVars>>
nonVocVars == <<exportVars, yoloVars, vggVars>>
nonYoloVars == <<exportVars, vocVars, vggVars>>
nonVggVars == <<exportVars, vocVars, yoloVars>>

(***************************************************************************)
(* Bounds of the model.                                                    *)
(***************************************************************************)
MaxRecords == 3
MaxObjects == 1
MaxShards == 2
MaxNames == 2

Labels == {"cat", "dog"}

Range(f) == {f[x] : x \in DOMAIN f}

SeqsUpTo(S, n) == UNION {[1..k -> S] : k \in 0..n}

Min(a, b) == IF a < b THEN a ELSE b

(***************************************************************************)
(* create_tfrecord                                                         *)
(***************************************************************************)

\* No class_map argument (class_map=None).
NoMap == [l \in {} |-> 0]

\* The class_map arguments tried: None, a complete map, and a map that
\* lacks the label "dog".
ClassMapArgs ==
    { [given |-> FALSE, map |-> NoMap],
      [given |-> TRUE, map |-> [l \in Labels |-> IF l = "cat" THEN 1 ELSE 2]],
      [given |-> TRUE, map |-> [l \in {"cat"} |-> 1]] }

\* The box and the raw mask array load() returns for object k of record i;
\* every image is 8 wide and 4 high.
ImgSize == <<8, 4>>
BoxOf(i, k) == <<k - 1, i - 1, k + 1, i + 2>>
RawMask(i, k) == [form |-> "ndarray", rec |-> i, obj |-> k]

\* Image.fromarray(mask).save(output, format='PNG'); output.getvalue()
EncodePNG(mask) == [form |-> "png", rec |-> mask.rec, obj |-> mask.obj]

\* str.encode("utf8")
EncodeUtf8(s) == [utf8 |-> s]

\* {cls for cls_per in classes for cls in cls_per}
unique_classes == UNION {Range(classes[i]) : i \in DOMAIN classes}

\* The orders in which a set can be enumerated.
Enumerations(S) ==
    {f \in [1..Cardinality(S) -> S] : \A a \in S : \E n \in DOMAIN f : f[n] = a}

\* {cls: idx for idx, cls in enumerate(order, start)}
EnumerateMap(order, start) ==
    [cls \in Range(order) |->
        (CHOOSE n \in DOMAIN order : order[n] = cls) - 1 + start]

ExportInit ==
    /\ pc = "start"
    /\ \E n \in 0..MaxRecords :
         /\ classes \in [1..n -> SeqsUpTo(Labels, MaxObjects)]
         /\ filenames = [i \in 1..n |-> <<"img", i>>]
         /\ size = [i \in 1..n |-> ImgSize]
    /\ bboxes = [i \in DOMAIN classes |->
                    [k \in DOMAIN classes[i] |-> BoxOf(i, k)]]
    /\ masks = [i \in DOMAIN classes |->
                    [k \in DOMAIN classes[i] |-> RawMask(i, k)]]
    /\ num_shards \in 1..MaxShards
    /\ class_map_arg \in ClassMapArgs
    /\ class_map = NoMap
    /\ close_stack = {}
    /\ output_tfrecords = <<>>
    /\ idx = 0
    /\ raised = "none"

\* create_tfrecord has not been called.
ExportIdle ==
    /\ pc = "idle"
    /\ filenames = <<>>
    /\ bboxes = <<>>
    /\ masks = <<>>
    /\ classes = <<>>
    /\ size = <<>>
    /\ num_shards = 1
    /\ class_map_arg = [given |-> FALSE, map |-> NoMap]
    /\ class_map = NoMap
    /\ close_stack = {}
    /\ output_tfrecords = <<>>
    /\ idx = 0
    /\ raised = "none"

\* Lines 47-49: the default class_map enumerates the set of labels, in the
\* order the set happens to be traversed, from 1.
BuildClassMap ==
    /\ pc = "start"
    /\ IF class_map_arg.given
         THEN class_map' = class_map_arg.map
         ELSE \E order \in Enumerations(unique_classes) :
                 class_map' = EnumerateMap(order, 1)
    /\ pc' = "open"
    /\ UNCHANGED <<filenames, bboxes, masks, classes, size, num_shards,
                   class_map_arg, close_stack, output_tfrecords, idx, raised>>
    /\ UNCHANGED nonExportVars

\* A faulty ExitStackClose: only the writer entered last is closed.
ExitStackCloseLast(stack, tfrecords) ==
    [s \in DOMAIN tfrecords |->
        IF s \in stack /\ (\A t \in stack : t <= s)
          THEN [tfrecords[s] EXCEPT !.state = "closed"]
          ELSE tfrecords[s]]

\* ExitStack.__exit__: every writer registered on the stack is closed.
ExitStackClose(stack, tfrecords) ==
    [s \in DOMAIN tfrecords |->
        IF s \in stack
          THEN [tfrecords[s] EXCEPT !.state = "closed"]
          ELSE tfrecords[s]]

\* Leaving the with block of line 51, normally or by an exception.
ExitWith(exc) ==
    /\ output_tfrecords' = ExitStackClose(close_stack, output_tfrecords)
    /\ close_stack' = {}
    /\ raised' = exc
    /\ pc' = IF exc = "none" THEN "done" ELSE "failed"

\* open_sharded_output_tfrecords: one writer per shard, each entered on the
\* ExitStack as it is opened.
OpenShard ==
    /\ pc = "open"
    /\ Len(output_tfrecords) < num_shards
    /\ output_tfrecords' =
           Append(output_tfrecords, [state |-> "open", records |-> <<>>])
    /\ close_stack' = close_stack \cup {Len(output_tfrecords) + 1}
    /\ UNCHANGED <<pc, filenames, bboxes, masks, classes, size, num_shards,
                   class_map_arg, class_map, idx, raised>>
    /\ UNCHANGED nonExportVars

\* A shard destination cannot be opened: the exception leaves the with block.
OpenFail ==
    /\ pc = "open"
    /\ Len(output_tfrecords) < num_shards
    /\ ExitWith("OpenError")
    /\ UNCHANGED <<filenames, bboxes, masks, classes, size, num_shards,
                   class_map_arg, class_map, idx>>
    /\ UNCHANGED nonExportVars

OpenDone ==
    /\ pc = "open"
    /\ Len(output_tfrecords) = num_shards
    /\ pc' = "loop"
    /\ UNCHANGED <<filenames, bboxes, masks, classes, size, num_shards,
                   class_map_arg, class_map, close_stack, output_tfrecords,
                   idx, raised>>
    /\ UNCHANGED nonExportVars

\* Lines 64-103: the tf.train.Example built for the record at 0-based
\* position i.  Fractions are kept as <<numerator, denominator>>.
TfExample(i) ==
    LET r == i + 1
        width == size[r][1]
        height == size[r][2]
        n == Min(Len(bboxes[r]), Min(Len(masks[r]), Len(classes[r])))
    IN  [ filename |-> EncodeUtf8(filenames[r]),
          source_id |-> EncodeUtf8(filenames[r]),
          height |-> height,
          width |-> width,
          ymin |-> [k \in 1..n |-> <<bboxes[r][k][1], height>>],
          xmin |-> [k \in 1..n |-> <<bboxes[r][k][2], width>>],
          ymax |-> [k \in 1..n |-> <<bboxes[r][k][3], height>>],
          xmax |-> [k \in 1..n |-> <<bboxes[r][k][4], width>>],
          class_text |-> [k \in 1..n |-> EncodeUtf8(classes[r][k])],
          class_label |-> [k \in 1..n |-> class_map[classes[r][k]]],
          mask |-> masks ]

\* A faulty ShardIdx: the shard is taken from the 1-based position.
ShardIdxNext(i, n) == (i + 1) % n

\* Line 105: shard_idx = idx % num_shards
ShardIdx(i, n) == i % n

\* Line 84 raises KeyError when a label of the record is not in class_map.
LabelsMapped(i) == \A k \in DOMAIN classes[i + 1] :
                       classes[i + 1][k] \in DOMAIN class_map

\* One iteration of the loop of lines 54-106 that completes: the record is
\* serialized and written to its shard.  The feature helpers of
\* dataset_utils and the serializer take the fields as they are handed
\* over; that they may reject them is the "SerializeError" of RecordFails.
WriteRecord ==
    /\ pc = "loop"
    /\ idx < Len(filenames)
    /\ LabelsMapped(idx)
    /\ LET s == ShardIdx(idx, num_shards) + 1
       IN  output_tfrecords' =
             [output_tfrecords EXCEPT
                 ![s].records = Append(@, TfExample(idx))]
    /\ idx' = idx + 1
    /\ UNCHANGED <<pc, filenames, bboxes, masks, classes, size, num_shards,
                   class_map_arg, class_map, close_stack, raised>>
    /\ UNCHANGED nonExportVars

\* One iteration that raises: the image bytes cannot be read (line 58), a
\* label is not in class_map (line 84), or the record cannot be serialized
\* (lines 89-106).
RecordFails ==
    /\ pc = "loop"
    /\ idx < Len(filenames)
    /\ \E exc \in {"ImageReadError", "KeyError", "SerializeError"} :
         /\ (exc = "KeyError") => ~LabelsMapped(idx)
         /\ ExitWith(exc)
    /\ UNCHANGED <<filenames, bboxes, masks, classes, size, num_shards,
                   class_map_arg, class_map, idx>>
    /\ UNCHANGED nonExportVars

\* The loop is exhausted: the with block is left normally.
Finish ==
    /\ pc = "loop"
    /\ idx = Len(filenames)
    /\ ExitWith("none")
    /\ UNCHANGED <<filenames, bboxes, masks, classes, size, num_shards,
                   class_map_arg, class_map, idx>>
    /\ UNCHANGED nonExportVars

ExportNext ==
    \/ BuildClassMap
    \/ OpenShard
    \/ OpenFail
    \/ OpenDone
    \/ WriteRecord
    \/ RecordFails
    \/ Finish

(***************************************************************************)
(* Text: file names and numbers are sequences of one-character strings.    *)
(***************************************************************************)

\* Line 12.
IMAGE_FORMATS ==
    << <<".", "p", "n", "g">>, <<".", "P", "N", "G">>,
       <<".", "j", "p", "g">>, <<".", "J", "P", "G">>,
       <<".", "j", "p", "e", "g">>, <<".", "J", "P", "E", "G">> >>

XmlExt == <<".", "x", "m", "l">>
TxtExt == <<".", "t", "x", "t">>

\* str.endswith
EndsWith(s, suffix) ==
    /\ Len(suffix) <= Len(s)
    /\ SubSeq(s, Len(s) - Len(suffix) + 1, Len(s)) = suffix

\* str.lstrip(chars), str.rstrip(chars) and str.strip(chars): the leading
\* and trailing characters that belong to the set of characters of chars
\* are removed.
RECURSIVE LStrip(_, _)
LStrip(s, chars) ==
    IF s # <<>> /\ Head(s) \in Range(chars) THEN LStrip(Tail(s), chars) ELSE s

RECURSIVE RStrip(_, _)
RStrip(s, chars) ==
    IF s # <<>> /\ s[Len(s)] \in Range(chars)
      THEN RStrip(SubSeq(s, 1, Len(s) - 1), chars)
      ELSE s

Strip(s, chars) == RStrip(LStrip(s, chars), chars)

\* functools.reduce(f, seq, initial) for f = lambda n, fmt: n.strip(fmt)
RECURSIVE ReduceStrip(_, _)
ReduceStrip(fmts, n) ==
    IF fmts = <<>> THEN n ELSE ReduceStrip(Tail(fmts), Strip(n, Head(fmts)))

\* Lines 101 and 159:
\* save_name = reduce(lambda n, fmt: n.strip(fmt), IMAGE_FORMATS, name)
SaveName(name) == ReduceStrip(IMAGE_FORMATS, name)

\* str(n) of an integer, and int(text) of such a text.
Digits == <<"0", "1", "2", "3", "4", "5", "6", "7", "8", "9">>

RECURSIVE NatToStr(_)
NatToStr(n) ==
    IF n < 10 THEN <<Digits[n + 1]>>
    ELSE Append(NatToStr(n \div 10), Digits[(n % 10) + 1])

IntToStr(n) == IF n < 0 THEN <<"-">> \o NatToStr(0 - n) ELSE NatToStr(n)

DigitValue(c) == (CHOOSE d \in DOMAIN Digits : Digits[d] = c) - 1

RECURSIVE StrToNat(_)
StrToNat(t) ==
    IF Len(t) = 1 THEN DigitValue(t[1])
    ELSE 10 * StrToNat(SubSeq(t, 1, Len(t) - 1)) + DigitValue(t[Len(t)])

StrToInt(t) == IF Head(t) = "-" THEN 0 - StrToNat(Tail(t)) ELSE StrToNat(t)

\* Python values that may be None.
PyStr(s) == <<"str", s>>
PyNone == <<"None">>

\* ElementTree.tostring followed by ElementTree.parse: an element whose
\* text is the empty string is written as an empty element, and the text of
\* an empty element is read as None.
XmlTextRead(text) == IF text = <<>> THEN PyNone ELSE PyStr(text)

(***************************************************************************)
(* PascalVOC.download and PascalVOC.load                                   *)
(***************************************************************************)
\* load() before it has read any file.
EmptyLoaded == [names |-> <<>>, bboxes |-> <<>>, classes |-> <<>>]

VocNames ==
    { <<"a", ".", "p", "n", "g">>,
      <<"a", ".", "j", "p", "g">>,
      <<"i", ".", "p", "n", "g">>,
      <<"p", "i", "g", ".", "p", "n", "g">> }

\* The labels "cat" and "dog" and the empty label.
VocLabels == { <<"c", "a", "t">>, <<"d", "o", "g">>, <<>> }

\* image.shape of every image handed to download, and the last component
\* of download_path.
VocShape == <<4, 8, 3>>
VocFolder == <<"o", "u", "t">>

\* The box of object k of record i of the annotation set handed to download.
VocBox(i, k) == <<k - 2, i - 1, 10 * k, i + 11>>

VocInit ==
    /\ voc_pc = "download"
    /\ \E n \in 0..MaxNames :
         /\ image_names \in [1..n -> VocNames]
         /\ voc_classes \in [1..n -> SeqsUpTo(VocLabels, MaxObjects)]
    /\ voc_bboxes = [i \in DOMAIN voc_classes |->
                        [k \in DOMAIN voc_classes[i] |-> VocBox(i, k)]]
    /\ voc_i = 0
    /\ voc_dir = [f \in {} |-> 0]
    /\ voc_loaded = EmptyLoaded

\* Neither download nor load has been called.
VocIdle ==
    /\ voc_pc = "idle"
    /\ image_names = <<>>
    /\ voc_classes = <<>>
    /\ voc_bboxes = <<>>
    /\ voc_i = 0
    /\ voc_dir = [f \in {} |-> 0]
    /\ voc_loaded = EmptyLoaded

\* Lines 91-99: the object element written for a box and its label.
VocObject(bbox, cls) ==
    [ name |-> cls,
      bndbox |-> [ xmin |-> IntToStr(bbox[2]), ymin |-> IntToStr(bbox[1]),
                   xmax |-> IntToStr(bbox[4]), ymax |-> IntToStr(bbox[3]) ] ]

\* Lines 82-99: the annotation document of record r.
VocDocument(r) ==
    LET n == Min(Len(voc_bboxes[r]), Len(voc_classes[r]))
        shape == VocShape
    IN  [ folder |-> VocFolder,
          file |-> image_names[r],
          size |-> [ width |-> IntToStr(shape[1]),
                     height |-> IntToStr(shape[2]),
                     depth |-> IntToStr(shape[3]) ],
          object |-> [k \in 1..n |->
                        VocObject(voc_bboxes[r][k], voc_classes[r][k])] ]

\* open(path, "wb") and write: the file is created or replaced.
WriteFile(dir, name, content) ==
    [f \in (DOMAIN dir) \cup {name} |-> IF f = name THEN content ELSE dir[f]]

\* One iteration of the loop of lines 79-103.
VocDownloadRecord ==
    /\ voc_pc = "download"
    /\ voc_i < Len(image_names)
    /\ LET r == voc_i + 1
           save_name == SaveName(image_names[r])
       IN  voc_dir' = WriteFile(voc_dir, save_name \o XmlExt, VocDocument(r))
    /\ voc_i' = voc_i + 1
    /\ UNCHANGED <<voc_pc, image_names, voc_bboxes, voc_classes, voc_loaded>>
    /\ UNCHANGED nonVocVars

VocDownloadDone ==
    /\ voc_pc = "download"
    /\ voc_i = Len(image_names)
    /\ voc_pc' = "load"
    /\ UNCHANGED <<image_names, voc_bboxes, voc_classes, voc_i, voc_dir,
                   voc_loaded>>
    /\ UNCHANGED nonVocVars

\* A faulty VocParseBox: xmin and ymin are read into the wrong components.
VocParseBoxSwapped(bndbox) ==
    << StrToInt(bndbox.xmin), StrToInt(bndbox.ymin),
       StrToInt(bndbox.ymax), StrToInt(bndbox.xmax) >>

\* Lines 66-71: the box read from a bndbox element.
VocParseBox(bndbox) ==
    << StrToInt(bndbox.ymin), StrToInt(bndbox.xmin),
       StrToInt(bndbox.ymax), StrToInt(bndbox.xmax) >>

\* Lines 52-75: load over the .xml files of the directory, which
\* os.listdir returns in an arbitrary order.
VocLoad ==
    /\ voc_pc = "load"
    /\ \E annotation_files \in
              Enumerations({f \in DOMAIN voc_dir : EndsWith(f, XmlExt)}) :
         voc_loaded' =
           [ names |-> [j \in DOMAIN annotation_files |->
                          XmlTextRead(voc_dir[annotation_files[j]].file)],
             bboxes |-> [j \in DOMAIN annotation_files |->
                          [k \in DOMAIN voc_dir[annotation_files[j]].object |->
                             VocParseBox(
                               voc_dir[annotation_files[j]].object[k].bndbox)]],
             classes |-> [j \in DOMAIN annotation_files |->
                          [k \in DOMAIN voc_dir[annotation_files[j]].object |->
                             XmlTextRead(
                               voc_dir[annotation_files[j]].object[k].name)]] ]
    /\ voc_pc' = "loaded"
    /\ UNCHANGED <<image_names, voc_bboxes, voc_classes, voc_i, voc_dir>>
    /\ UNCHANGED nonVocVars

VocNext ==
    \/ VocDownloadRecord
    \/ VocDownloadDone
    \/ VocLoad


(***************************************************************************)
(* Floating point.  A float is the fraction num/den together with exact:   *)
(* TRUE when the double is that fraction, FALSE when it is the fraction    *)
(* rounded to a neighbouring double.  A quotient, sum or product is exact  *)
(* when its operands are and the result is a dyadic fraction (all values   *)
(* here are far below 2^53).                                               *)
(***************************************************************************)
RECURSIVE GCD(_, _)
GCD(a, b) == IF b = 0 THEN a ELSE GCD(b, a % b)

RECURSIVE IsPow2(_)
IsPow2(n) == n = 1 \/ (n > 1 /\ n % 2 = 0 /\ IsPow2(n \div 2))

Dyadic(num, den) ==
    LET a == IF num < 0 THEN 0 - num ELSE num
    IN  IsPow2(den \div GCD(a, den))

\* a / b for integers a and b > 0
FDiv(a, b) == [num |-> a, den |-> b, exact |-> Dyadic(a, b)]

\* x + y
FAdd(x, y) ==
    LET n == x.num * y.den + y.num * x.den
        d == x.den * y.den
    IN  [num |-> n, den |-> d, exact |-> x.exact /\ y.exact /\ Dyadic(n, d)]

\* x * k for an integer k
FMul(x, k) ==
    [num |-> x.num * k, den |-> x.den,
     exact |-> x.exact /\ Dyadic(x.num * k, x.den)]

TruncDiv(n, d) == IF n >= 0 THEN n \div d ELSE 0 - ((0 - n) \div d)

\* The values a cast to int32 (truncation towards zero) can give: a rounded
\* float next to an integer k may lie on either side of k.
ToInt32(x) ==
    LET t == TruncDiv(x.num, x.den)
    IN  IF x.exact \/ x.num % x.den # 0 \/ t = 0 THEN {t}
        ELSE IF t > 0 THEN {t - 1, t} ELSE {t, t + 1}

(***************************************************************************)
(* YOLO.download and YOLO.load                                             *)
(***************************************************************************)
YoloNames ==
    { <<"a", ".", "p", "n", "g">>,
      <<"a", ".", "j", "p", "g">>,
      <<"b", ".", "p", "n", "g">>,
      <<"c", "a", "t", ".", "p", "n", "g">>,
      <<"p", "i", "g", ".", "p", "n", "g">> }

YoloLabels == { <<"c", "a", "t">>, <<"d", "o", "g">> }

\* image.shape of the image of a name: the first two components.
YoloShape(name) ==
    IF Head(name) = "a" THEN <<8, 8>>
    ELSE IF Head(name) = "b" THEN <<4, 8>>
    ELSE <<20, 20>>

\* The boxes (y0, x0, y1, x1) of the objects of an image of that shape, all
\* inside the image.
YoloBoxes(shape) ==
    IF shape = <<20, 20>>
      THEN << <<2, 3, 10, 9>>, <<0, 0, 20, 20>>, <<5, 5, 6, 6>> >>
    ELSE IF shape = <<8, 8>>
      THEN << <<1, 2, 5, 6>>, <<0, 0, 8, 8>>, <<3, 7, 4, 8>> >>
    ELSE << <<1, 2, 3, 6>>, <<0, 0, 4, 8>>, <<3, 7, 4, 8>> >>

YoloInit ==
    /\ yolo_pc = "dict"
    /\ \E n \in 0..MaxNames :
         /\ yolo_names \in [1..n -> YoloNames]
         /\ yolo_classes \in [1..n -> SeqsUpTo(YoloLabels, MaxObjects)]
    /\ yolo_bboxes =
         [i \in DOMAIN yolo_classes |->
            [k \in DOMAIN yolo_classes[i] |->
                YoloBoxes(YoloShape(yolo_names[i]))[k]]]
    /\ classes_dict = [l \in {} |-> 0]
    /\ yolo_i = 0
    /\ yolo_dir = [f \in {} |-> 0]
    /\ yolo_todo = <<>>
    /\ yolo_loaded = EmptyLoaded

\* Neither download nor load has been called.
YoloIdle ==
    /\ yolo_pc = "idle"
    /\ yolo_names = <<>>
    /\ yolo_classes = <<>>
    /\ yolo_bboxes = <<>>
    /\ classes_dict = [l \in {} |-> 0]
    /\ yolo_i = 0
    /\ yolo_dir = [f \in {} |-> 0]
    /\ yolo_todo = <<>>
    /\ yolo_loaded = EmptyLoaded

\* Line 157: classes_dict enumerates the set of labels, in the order the
\* set happens to be traversed, from 0.
YoloBuildDict ==
    /\ yolo_pc = "dict"
    /\ \E order \in Enumerations(
                UNION {Range(yolo_classes[i]) : i \in DOMAIN yolo_classes}) :
          classes_dict' = EnumerateMap(order, 0)
    /\ yolo_pc' = "download"
    /\ UNCHANGED <<yolo_names, yolo_bboxes, yolo_classes, yolo_i, yolo_dir,
                   yolo_todo, yolo_loaded>>
    /\ UNCHANGED nonYoloVars

\* Line 163: the line written for a box and its label, with
\* w, h, d = image.shape.
YoloLine(bbox, c, shape) ==
    LET w == shape[1]
        h == shape[2]
    IN  [ cls |-> IntToStr(classes_dict[c]),
          x0 |-> FDiv(bbox[2], w),
          y0 |-> FDiv(bbox[1], h),
          dx |-> FDiv(bbox[4] - bbox[2], w),
          dy |-> FDiv(bbox[3] - bbox[1], h) ]

\* One iteration of the loop of lines 158-163.
YoloDownloadRecord ==
    /\ yolo_pc = "download"
    /\ yolo_i < Len(yolo_names)
    /\ LET r == yolo_i + 1
           save_name == SaveName(yolo_names[r])
           n == Min(Len(yolo_bboxes[r]), Len(yolo_classes[r]))
           lines == [k \in 1..n |->
                        YoloLine(yolo_bboxes[r][k], yolo_classes[r][k],
                                 YoloShape(yolo_names[r]))]
       IN  yolo_dir' = WriteFile(yolo_dir, save_name \o TxtExt, lines)
    /\ yolo_i' = yolo_i + 1
    /\ UNCHANGED <<yolo_pc, yolo_names, yolo_bboxes, yolo_classes,
                   classes_dict, yolo_todo, yolo_loaded>>
    /\ UNCHANGED nonYoloVars

YoloDownloadDone ==
    /\ yolo_pc = "download"
    /\ yolo_i = Len(yolo_names)
    /\ yolo_pc' = "list"
    /\ UNCHANGED <<yolo_names, yolo_bboxes, yolo_classes, classes_dict,
                   yolo_i, yolo_dir, yolo_todo, yolo_loaded>>
    /\ UNCHANGED nonYoloVars

\* Line 118: the .txt files of the directory, in the order of os.listdir.
YoloListFiles ==
    /\ yolo_pc = "list"
    /\ yolo_todo' \in
          Enumerations({f \in DOMAIN yolo_dir : EndsWith(f, TxtExt)})
    /\ yolo_pc' = "load"
    /\ UNCHANGED <<yolo_names, yolo_bboxes, yolo_classes, classes_dict,
                   yolo_i, yolo_dir, yolo_loaded>>
    /\ UNCHANGED nonYoloVars

\* Lines 127-130: the images of image_dir (the images of the annotation
\* set) named file.strip('.txt') plus one of IMAGE_FORMATS.
PotentialImages(file) ==
    {name \in Range(yolo_names) :
        \E k \in DOMAIN IMAGE_FORMATS :
            name = Strip(file, TxtExt) \o IMAGE_FORMATS[k]}

\* Lines 148-150: the boxes a line can decode to, with
\* w, h, _ = image.shape:
\* [y0 * h, x0 * w, (y0 + dy) * h, (x0 + dx) * w] as int32.
YoloDecode(line, shape) ==
    LET w == shape[1]
        h == shape[2]
    IN  ToInt32(FMul(line.y0, h))
          \X ToInt32(FMul(line.x0, w))
          \X ToInt32(FMul(FAdd(line.y0, line.dy), h))
          \X ToInt32(FMul(FAdd(line.x0, line.dx), w))

\* Lines 123-153 for one annotation file whose image is found.
YoloLoadFile ==
    /\ yolo_pc = "load"
    /\ yolo_todo # <<>>
    /\ LET file == Head(yolo_todo)
           lines == yolo_dir[file]
       IN  /\ Cardinality(PotentialImages(file)) = 1
           /\ \E name \in PotentialImages(file) :
              \E bboxes_per \in
                    [DOMAIN lines ->
                       UNION {YoloDecode(lines[k], YoloShape(name)) :
                                k \in DOMAIN lines}] :
                /\ \A k \in DOMAIN lines :
                      bboxes_per[k] \in YoloDecode(lines[k], YoloShape(name))
                /\ yolo_loaded' =
                     [ names |-> Append(yolo_loaded.names, name),
                       bboxes |-> Append(yolo_loaded.bboxes, bboxes_per),
                       classes |-> Append(yolo_loaded.classes,
                                     [k \in DOMAIN lines |-> lines[k].cls]) ]
    /\ yolo_todo' = Tail(yolo_todo)
    /\ UNCHANGED <<yolo_pc, yolo_names, yolo_bboxes, yolo_classes,
                   classes_dict, yolo_i, yolo_dir>>
    /\ UNCHANGED nonYoloVars

\* Lines 132-135: no image, or more than one, corresponds to the file.
YoloLoadAssertFails ==
    /\ yolo_pc = "load"
    /\ yolo_todo # <<>>
    /\ Cardinality(PotentialImages(Head(yolo_todo))) # 1
    /\ yolo_pc' = "failed"
    /\ UNCHANGED <<yolo_names, yolo_bboxes, yolo_classes, classes_dict,
                   yolo_i, yolo_dir, yolo_todo, yolo_loaded>>
    /\ UNCHANGED nonYoloVars

\* Line 154.
YoloLoadReturn ==
    /\ yolo_pc = "load"
    /\ yolo_todo = <<>>
    /\ yolo_pc' = "loaded"
    /\ UNCHANGED <<yolo_names, yolo_bboxes, yolo_classes, classes_dict,
                   yolo_i, yolo_dir, yolo_todo, yolo_loaded>>
    /\ UNCHANGED nonYoloVars

YoloNext ==
    \/ YoloBuildDict
    \/ YoloDownloadRecord
    \/ YoloDownloadDone
    \/ YoloListFiles
    \/ YoloLoadFile
    \/ YoloLoadAssertFails
    \/ YoloLoadReturn


(***************************************************************************)
(* VGG.load: finding the annotations file.  A path is a sequence of        *)
(* components, each a sequence of characters; f"{a}/{b}" joins two paths.  *)
(***************************************************************************)
JsonExt == <<".", "j", "s", "o", "n">>

\* The names annotations_dir may have, and the entries a directory may hold.
VggDirNames ==
    { <<"d">>, <<"d", ".", "j", "s", "o", "n">> }

VggEntryNames ==
    { <<"a", ".", "j", "s", "o", "n">>,
      <<"b", ".", "j", "s", "o", "n">>,
      <<"d", ".", "j", "s", "o", "n">>,
      <<"c", ".", "t", "x", "t">> }

\* str.endswith on a path: on its last component.
PathEndsWith(path, suffix) == EndsWith(path[Len(path)], suffix)

\* f"{a}/{b}"
JoinPath(a, b) == a \o b

\* open(path, "r") succeeds: the path names a regular file.
IsFile(path) ==
    \/ path = annotations_dir /\ vgg_kind = "file"
    \/ /\ Len(path) = Len(annotations_dir) + 1
       /\ SubSeq(path, 1, Len(annotations_dir)) = annotations_dir
       /\ vgg_kind = "dir"
       /\ path[Len(path)] \in vgg_entries

VggInit ==
    /\ vgg_pc = "start"
    /\ \E name \in VggDirNames : annotations_dir = <<name>>
    /\ vgg_kind \in {"dir", "file"}
    /\ vgg_entries \in SUBSET VggEntryNames
    /\ vgg_kind = "file" => vgg_entries = {}
    /\ potential_annotations = <<>>
    /\ annotations_file = <<>>
    /\ vgg_opened = <<>>
    /\ vgg_error = "none"

\* load has not been called.
VggIdle ==
    /\ vgg_pc = "idle"
    /\ annotations_dir = <<>>
    /\ vgg_kind = "dir"
    /\ vgg_entries = {}
    /\ potential_annotations = <<>>
    /\ annotations_file = <<>>
    /\ vgg_opened = <<>>
    /\ vgg_error = "none"

\* Lines 160-161: the argument ends in .json and is taken for the file.
VggTakeFile ==
    /\ vgg_pc = "start"
    /\ PathEndsWith(annotations_dir, JsonExt)
    /\ annotations_file' = annotations_dir
    /\ vgg_pc' = "open"
    /\ UNCHANGED <<annotations_dir, vgg_kind, vgg_entries,
                   potential_annotations, vgg_opened, vgg_error>>
    /\ UNCHANGED nonVggVars

\* Line 163: the .json entries of the directory, in the order of os.listdir.
VggListDir ==
    /\ vgg_pc = "start"
    /\ ~PathEndsWith(annotations_dir, JsonExt)
    /\ vgg_kind = "dir"
    /\ potential_annotations' \in
          Enumerations({f \in vgg_entries : EndsWith(f, JsonExt)})
    /\ vgg_pc' = "assert"
    /\ UNCHANGED <<annotations_dir, vgg_kind, vgg_entries, annotations_file,
                   vgg_opened, vgg_error>>
    /\ UNCHANGED nonVggVars

\* Line 163: os.listdir of a path that is not a directory raises.
VggListDirFails ==
    /\ vgg_pc = "start"
    /\ ~PathEndsWith(annotations_dir, JsonExt)
    /\ vgg_kind # "dir"
    /\ vgg_error' = "NotADirectoryError"
    /\ vgg_pc' = "failed"
    /\ UNCHANGED <<annotations_dir, vgg_kind, vgg_entries,
                   potential_annotations, annotations_file, vgg_opened>>
    /\ UNCHANGED nonVggVars

\* Lines 164-165.
VggAssertNone ==
    /\ vgg_pc = "assert"
    /\ Len(potential_annotations) = 0
    /\ vgg_error' = "AssertionError: no annotations .json file"
    /\ vgg_pc' = "failed"
    /\ UNCHANGED <<annotations_dir, vgg_kind, vgg_entries,
                   potential_annotations, annotations_file, vgg_opened>>
    /\ UNCHANGED nonVggVars

\* Lines 166-167.
VggAssertMany ==
    /\ vgg_pc = "assert"
    /\ Len(potential_annotations) # 0
    /\ Len(potential_annotations) # 1
    /\ vgg_error' = "AssertionError: too many annotations .json files"
    /\ vgg_pc' = "failed"
    /\ UNCHANGED <<annotations_dir, vgg_kind, vgg_entries,
                   potential_annotations, annotations_file, vgg_opened>>
    /\ UNCHANGED nonVggVars

\* Line 168.
VggTakeCandidate ==
    /\ vgg_pc = "assert"
    /\ Len(potential_annotations) = 1
    /\ annotations_file' = <<potential_annotations[1]>>
    /\ vgg_pc' = "open"
    /\ UNCHANGED <<annotations_dir, vgg_kind, vgg_entries,
                   potential_annotations, vgg_opened, vgg_error>>
    /\ UNCHANGED nonVggVars

\* Line 169: the path that is opened.
VggOpenPath == JoinPath(annotations_dir, annotations_file)

\* Lines 169-170: the file is opened and parsed.
VggOpen ==
    /\ vgg_pc = "open"
    /\ IsFile(VggOpenPath)
    /\ vgg_opened' = VggOpenPath
    /\ vgg_pc' = "parsed"
    /\ UNCHANGED <<annotations_dir, vgg_kind, vgg_entries,
                   potential_annotations, annotations_file, vgg_error>>
    /\ UNCHANGED nonVggVars

\* Line 169: open raises, there is no such file.
VggOpenFails ==
    /\ vgg_pc = "open"
    /\ ~IsFile(VggOpenPath)
    /\ vgg_error' = IF vgg_kind = "file" THEN "NotADirectoryError"
                                         ELSE "FileNotFoundError"
    /\ vgg_pc' = "failed"
    /\ UNCHANGED <<annotations_dir, vgg_kind, vgg_entries,
                   potential_annotations, annotations_file, vgg_opened>>
    /\ UNCHANGED nonVggVars

VggNext ==
    \/ VggTakeFile
    \/ VggListDir
    \/ VggListDirFails
    \/ VggAssertNone
    \/ VggAssertMany
    \/ VggTakeCandidate
    \/ VggOpen
    \/ VggOpenFails

(***************************************************************************)
(* Specifications                                                          *)
(***************************************************************************)
InitExport == ExportInit /\ VocIdle /\ YoloIdle /\ VggIdle
InitVOC == VocInit /\ ExportIdle /\ YoloIdle /\ VggIdle
InitYOLO == YoloInit /\ ExportIdle /\ VocIdle /\ VggIdle
InitVGG == VggInit /\ ExportIdle /\ VocIdle /\ YoloIdle

SpecExport == InitExport /\ [][ExportNext]_vars

\* create_tfrecord is one sequential call: it keeps taking steps until it
\* returns or raises.
FairExport == InitExport /\ [][ExportNext]_vars /\ WF_vars(ExportNext)

SpecVOC == InitVOC /\ [][VocNext]_vars

SpecYOLO == InitYOLO /\ [][YoloNext]_vars

SpecVGG == InitVGG /\ [][VggNext]_vars

(***************************************************************************)
(* Properties of create_tfrecord                                           *)
(***************************************************************************)
Terminated == pc \in {"done", "failed"}

\* The (shard, position) pairs at which the record of 0-based index i has
\* been written.
WrittenAt(i) ==
    {sp \in (DOMAIN output_tfrecords) \X (1..MaxRecords + 1) :
        /\ sp[2] <= Len(output_tfrecords[sp[1]].records)
        /\ output_tfrecords[sp[1]].records[sp[2]].filename
              = EncodeUtf8(filenames[i + 1])}

RECURSIVE SumLen(_, _)
SumLen(tfrecords, n) ==
    IF n = 0 THEN 0 ELSE Len(tfrecords[n].records) + SumLen(tfrecords, n - 1)

\* C1: every record processed so far (0-based index i < idx) has been
\* written exactly once, to shard i mod num_shards and to no other shard,
\* no other record has been written, and when the export has finished the
\* record counts of the num_shards shards sum to the number of records.
C1_ShardAssignment ==
    /\ \A i \in 0..(Len(filenames) - 1) :
         IF i < idx
           THEN /\ Cardinality(WrittenAt(i)) = 1
                /\ \A sp \in WrittenAt(i) : sp[1] - 1 = i % num_shards
           ELSE WrittenAt(i) = {}
    /\ pc = "done" =>
         /\ Len(output_tfrecords) = num_shards
         /\ SumLen(output_tfrecords, num_shards) = Len(filenames)

\* C1 witness: an export of three records over two shards has finished, so
\* that shard 0 holds two records and shard 1 one.
C1_Witness ==
    /\ pc = "done"
    /\ Len(filenames) = 3
    /\ num_shards = 2
    /\ Len(output_tfrecords[1].records) = 2
    /\ Len(output_tfrecords[2].records) = 1

\* The lexicographic rank of a label among a set of labels ("cat" < "dog").
LexLess(a, b) == a = "cat" /\ b = "dog"
SortedMap(S) == [l \in S |-> 1 + Cardinality({m \in S : LexLess(m, l)})]

\* C2: the default class_map gives the distinct labels, sorted
\* lexicographically, the ids 1, 2, 3, ... in that order, whatever the
\* traversal order of the label collection.
C2_ClassMapSorted ==
    (pc # "start" /\ ~class_map_arg.given) =>
        class_map = SortedMap(unique_classes)

\* C7: once create_tfrecord has returned or raised, no shard is open, on
\* every exit path; it always returns or raises; and no step removes or
\* changes a record already written to a shard.
C7_ShardsClosedOnEveryExit ==
    /\ [](Terminated =>
            \A s \in DOMAIN output_tfrecords :
                output_tfrecords[s].state = "closed")
    /\ <>Terminated
    /\ [][\A s \in DOMAIN output_tfrecords :
            /\ s \in DOMAIN output_tfrecords'
            /\ Len(output_tfrecords[s].records)
                  <= Len(output_tfrecords'[s].records)
            /\ SubSeq(output_tfrecords'[s].records, 1,
                      Len(output_tfrecords[s].records))
                  = output_tfrecords[s].records]_vars

\* C7 witness: the export raised while processing a record after another
\* record had been written, every shard is closed and the written record
\* is still in its shard.
C7_Witness ==
    /\ pc = "failed"
    /\ raised \in {"ImageReadError", "KeyError", "SerializeError"}
    /\ num_shards = 2
    /\ idx >= 1
    /\ Len(output_tfrecords[1].records) >= 1
    /\ \A s \in DOMAIN output_tfrecords :
           output_tfrecords[s].state = "closed"

\* C9: the mask field of every structured record written (here: for a
\* record that has objects) holds exactly one entry per object of that
\* record, entry k being the encoded-bytes form of the mask of object k,
\* as many as the record has labels and box fractions.
C9_MaskFieldEncoded ==
    \A i \in 0..(Len(filenames) - 1) :
        \A sp \in {w \in WrittenAt(i) : Len(classes[i + 1]) >= 1} :
            LET e == output_tfrecords[sp[1]].records[sp[2]]
            IN  /\ e.mask = [k \in DOMAIN masks[i + 1] |->
                                EncodePNG(masks[i + 1][k])]
                /\ Len(e.mask) = Len(e.class_label)
                /\ Len(e.mask) = Len(e.xmin)

(***************************************************************************)
(* Properties of PascalVOC.download and PascalVOC.load                     *)
(***************************************************************************)

\* The name without its known image extension: only a suffix that is one
\* of IMAGE_FORMATS is removed, and nothing else.
RemoveKnownExt(name) ==
    IF \E k \in DOMAIN IMAGE_FORMATS : EndsWith(name, IMAGE_FORMATS[k])
      THEN LET k == CHOOSE k \in DOMAIN IMAGE_FORMATS :
                        EndsWith(name, IMAGE_FORMATS[k])
           IN  SubSeq(name, 1, Len(name) - Len(IMAGE_FORMATS[k]))
      ELSE name

\* Record i of the annotation set handed to download comes back from load
\* exactly once, under its name, with the same boxes and the same labels
\* in the same object order.
VocRoundTrip(i) ==
    /\ Cardinality({j \in DOMAIN voc_loaded.names :
                        voc_loaded.names[j] = PyStr(image_names[i])}) = 1
    /\ \E j \in DOMAIN voc_loaded.names :
         /\ voc_loaded.names[j] = PyStr(image_names[i])
         /\ voc_loaded.bboxes[j] = voc_bboxes[i]
         /\ voc_loaded.classes[j] =
               [k \in DOMAIN voc_classes[i] |-> PyStr(voc_classes[i][k])]

DistinctNames ==
    \A i, j \in DOMAIN image_names :
        i # j => image_names[i] # image_names[j]

DistinctSaveNames ==
    \A i, j \in DOMAIN image_names :
        i # j => SaveName(image_names[i]) # SaveName(image_names[j])

NoEmptyLabel ==
    \A i \in DOMAIN voc_classes : \A k \in DOMAIN voc_classes[i] :
        voc_classes[i][k] # <<>>

C8_SaveNameRemovesOnlyExtension ==
    \A f \in DOMAIN voc_dir :
        f = RemoveKnownExt(voc_dir[f].file) \o XmlExt

(***************************************************************************)
(* Properties of YOLO.download and YOLO.load                               *)
(***************************************************************************)
Abs(n) == IF n < 0 THEN 0 - n ELSE n

\* The integer v is within one of the fraction num/den (den > 0).
WithinOne(v, num, den) == (v - 1) * den <= num /\ num <= (v + 1) * den

\* C4: when load has returned from the files written by download, every
\* record is found under its name with each object's label identical to
\* the original and each box coordinate within one pixel of the original.
C4_YoloRoundTrip ==
    yolo_pc = "loaded" =>
        \A i \in DOMAIN yolo_names :
            \E j \in DOMAIN yolo_loaded.names :
                /\ yolo_loaded.names[j] = yolo_names[i]
                /\ Len(yolo_loaded.bboxes[j]) = Len(yolo_bboxes[i])
                /\ \A k \in DOMAIN yolo_bboxes[i] :
                     /\ yolo_loaded.classes[j][k] = yolo_classes[i][k]
                     /\ \A c \in 1..4 :
                          Abs(yolo_loaded.bboxes[j][k][c]
                                - yolo_bboxes[i][k][c]) <= 1

\* The box of a line under the center+size convention on an image H high
\* and W wide, up to the cast to integers.
CenterBox(bbox, line, H, W) ==
    /\ WithinOne(bbox[1],
                 (2 * line.y0.num * line.dy.den - line.dy.num * line.y0.den) * H,
                 2 * line.y0.den * line.dy.den)
    /\ WithinOne(bbox[2],
                 (2 * line.x0.num * line.dx.den - line.dx.num * line.x0.den) * W,
                 2 * line.x0.den * line.dx.den)
    /\ WithinOne(bbox[3],
                 (2 * line.y0.num * line.dy.den + line.dy.num * line.y0.den) * H,
                 2 * line.y0.den * line.dy.den)
    /\ WithinOne(bbox[4],
                 (2 * line.x0.num * line.dx.den + line.dx.num * line.x0.den) * W,
                 2 * line.x0.den * line.dx.den)

\* C5: every line "label cx cy dw dh" that load reads is decoded with the
\* center+size convention: y0 = (cy - dh/2)*H, x0 = (cx - dw/2)*W,
\* y1 = (cy + dh/2)*H, x1 = (cx + dw/2)*W, cast to integers.
C5_CenterConvention ==
    [][YoloLoadFile =>
          LET lines == yolo_dir[Head(yolo_todo)]
              j == Len(yolo_loaded'.names)
              shape == YoloShape(yolo_loaded'.names[j])
          IN  \A k \in DOMAIN lines :
                  CenterBox(yolo_loaded'.bboxes[j][k], lines[k],
                            shape[1], shape[2])]_vars

(***************************************************************************)
(* Properties of VGG.load                                                  *)
(***************************************************************************)
JsonCandidates == {f \in vgg_entries : EndsWith(f, JsonExt)}

\* C6: given a directory, load fails with the missing-source error when
\* the directory holds no .json file and with the ambiguous-source error
\* when it holds more than one; it parses only when exactly one .json
\* candidate exists, and then parses that candidate.
C6_DirectoryDiscovery ==
    (vgg_kind = "dir" /\ vgg_pc \in {"parsed", "failed"}) =>
        /\ Cardinality(JsonCandidates) = 0 =>
              vgg_error = "AssertionError: no annotations .json file"
        /\ Cardinality(JsonCandidates) > 1 =>
              vgg_error = "AssertionError: too many annotations .json files"
        /\ vgg_pc = "parsed" =>
              /\ Cardinality(JsonCandidates) = 1
              /\ \E f \in JsonCandidates :
                    vgg_opened = JoinPath(annotations_dir, <<f>>)

\* C10: given the .json annotations file itself, load reads the
\* annotations from exactly that file (the path opened is the argument);
\* given a directory with one .json file, from exactly that file inside
\* the directory.
C10_FileOrDirectory ==
    /\ (vgg_kind = "file" /\ PathEndsWith(annotations_dir, JsonExt)
          /\ vgg_pc \in {"parsed", "failed"}) =>
            (vgg_pc = "parsed" /\ vgg_opened = annotations_dir)
    /\ (vgg_kind = "dir" /\ Cardinality(JsonCandidates) = 1
          /\ vgg_pc \in {"parsed", "failed"}) =>
            (vgg_pc = "parsed" /\
               \E f \in JsonCandidates :
                    vgg_opened = JoinPath(annotations_dir, <<f>>))

====
